---- MODULE Spec2Model ----
(***************************************************************************)
(* Announcements router of the High School Management System API           *)
(* (src/backend/routers/announcements.py).                                  *)
(*                                                                         *)
(* Strings are sequences of character codes (ASCII), so that base64        *)
(* decoding, ISO date parsing, ObjectId parsing and Python's string        *)
(* comparison are computed on the characters.  Optional[str] values use    *)
(* None, a sequence no string equals.                                      *)
(***************************************************************************)
EXTENDS Integers, Sequences, FiniteSets, TLC

VARIABLES
    announcements,  \* announcements_collection: ObjectId -> document
    next_oid,       \* number of ObjectIds the store has generated so far
    utc,            \* the last value datetime.utcnow() returned
    req,            \* the request the last handler served
    resp,           \* the response it produced
    served,         \* number of requests served so far
    proc            \* the concurrent handlers: their position and locals

vars == <<announcements, next_oid, utc, req, resp, served, proc>>

\* Python's None for Optional[str] fields (no character has code -1).
None == <<-1>>

----------------------------------------------------------------------------
(* Characters and strings                                                  *)

IsDigit(c) == c >= 48 /\ c <= 57                \* '0'..'9'
IsUpper(c) == c >= 65 /\ c <= 90                \* 'A'..'Z'
IsLower(c) == c >= 97 /\ c <= 122               \* 'a'..'z'

\* s[i..j] as Python's s[i-1:j]; empty when the range is empty.
Slice(s, i, j) == IF i > j THEN <<>> ELSE SubSeq(s, i, j)

\* Python's str ordering: a > b, by code point, a proper prefix being smaller.
RECURSIVE StrGt(_, _)
StrGt(a, b) ==
    IF a = <<>> THEN FALSE
    ELSE IF b = <<>> THEN TRUE
    ELSE IF Head(a) # Head(b) THEN Head(a) > Head(b)
    ELSE StrGt(Tail(a), Tail(b))

\* Index of the first occurrence of character c in s, 0 when there is none.
RECURSIVE FindFrom(_, _, _)
FindFrom(s, c, i) ==
    IF i > Len(s) THEN 0
    ELSE IF s[i] = c THEN i
    ELSE FindFrom(s, c, i + 1)

\* The two-digit number at s[i], s[i+1]; -1 when they are not both digits.
Digits2(s, i) ==
    IF i + 1 <= Len(s) /\ IsDigit(s[i]) /\ IsDigit(s[i + 1])
    THEN (s[i] - 48) * 10 + (s[i + 1] - 48)
    ELSE -1

\* The number written by the digit string s; -1 when s is empty or has a
\* character that is no digit.
RECURSIVE DigitsVal(_)
DigitsVal(s) ==
    IF s = <<>> THEN -1
    ELSE IF ~IsDigit(s[Len(s)]) THEN -1
    ELSE IF Len(s) = 1 THEN s[1] - 48
    ELSE LET hi == DigitsVal(SubSeq(s, 1, Len(s) - 1))
         IN  IF hi < 0 THEN -1 ELSE hi * 10 + (s[Len(s)] - 48)

\* n written in decimal with at least w digits, zero padded ("%0wd").
RECURSIVE Pad(_, _)
Pad(n, w) ==
    IF w <= 1 /\ n < 10 THEN <<48 + n>>
    ELSE Pad(n \div 10, w - 1) \o <<48 + (n % 10)>>

----------------------------------------------------------------------------
(* datetime: fromisoformat, isoformat                                      *)

IsLeap(y) == y % 4 = 0 /\ (y % 100 # 0 \/ y % 400 = 0)

DaysInMonth(y, m) ==
    IF m = 2 THEN (IF IsLeap(y) THEN 29 ELSE 28)
    ELSE IF m \in {4, 6, 9, 11} THEN 30 ELSE 31

\* A parse that failed (fromisoformat raising ValueError).
BadParse ==
    [ok |-> FALSE, y |-> 0, m |-> 0, d |-> 0, hh |-> 0, mi |-> 0, ss |-> 0,
     us |-> 0, aware |-> FALSE, off |-> 0]

\* _parse_hh_mm_ss_ff: HH[:MM[:SS[.fff[fff]]]], the fields unchecked for range.
ParseHMSF(t) ==
    LET L  == Len(t)
        hh == Digits2(t, 1)
        mi == IF L >= 5 THEN Digits2(t, 4) ELSE 0
        ss == IF L >= 8 THEN Digits2(t, 7) ELSE 0
        fr == IF L > 9 THEN DigitsVal(Slice(t, 10, L)) ELSE 0
        shape ==
            /\ L \in {2, 5, 8, 12, 15}
            /\ L >= 5 => t[3] = 58          \* ':'
            /\ L >= 8 => t[6] = 58
            /\ L >= 12 => t[9] = 46         \* '.'
    IN  IF shape /\ hh >= 0 /\ mi >= 0 /\ ss >= 0 /\ fr >= 0
        THEN [ok |-> TRUE, hh |-> hh, mi |-> mi, ss |-> ss,
              us |-> IF L = 12 THEN fr * 1000 ELSE fr]
        ELSE [ok |-> FALSE, hh |-> 0, mi |-> 0, ss |-> 0, us |-> 0]

\* datetime.fromisoformat(s): YYYY-MM-DD[*HH[:MM[:SS[.fff[fff]]]][+HH:MM[:SS]]],
\* the fields range-checked as the datetime and timezone constructors do.
FromIsoFormat(s) ==
    IF Len(s) < 10 \/ Len(s) = 11 THEN BadParse
    ELSE
    LET y    == DigitsVal(Slice(s, 1, 4))
        m    == Digits2(s, 6)
        d    == Digits2(s, 9)
        tstr == Slice(s, 12, Len(s))
        minus == FindFrom(tstr, 45, 1)      \* '-'
        plus  == FindFrom(tstr, 43, 1)      \* '+'
        tzpos == IF minus > 0 THEN minus ELSE plus
        tm   == IF tstr = <<>>
                THEN [ok |-> TRUE, hh |-> 0, mi |-> 0, ss |-> 0, us |-> 0]
                ELSE ParseHMSF(IF tzpos > 0 THEN Slice(tstr, 1, tzpos - 1) ELSE tstr)
        tzstr == IF tzpos > 0 THEN Slice(tstr, tzpos + 1, Len(tstr)) ELSE <<>>
        tz   == IF tzpos > 0 /\ Len(tzstr) \in {5, 8}
                THEN ParseHMSF(tzstr)
                ELSE [ok |-> tzpos = 0, hh |-> 0, mi |-> 0, ss |-> 0, us |-> 0]
        tzsecs == tz.hh * 3600 + tz.mi * 60 + tz.ss
        dateOk ==
            /\ s[5] = 45 /\ s[8] = 45
            /\ y >= 1 /\ m >= 1 /\ m <= 12
            /\ d >= 1 /\ d <= DaysInMonth(y, m)
        timeOk == tm.ok /\ tm.hh <= 23 /\ tm.mi <= 59 /\ tm.ss <= 59
        tzOk   == tz.ok /\ tzsecs < 86400
    IN  IF dateOk /\ timeOk /\ tzOk
        THEN [ok |-> TRUE, y |-> y, m |-> m, d |-> d, hh |-> tm.hh, mi |-> tm.mi,
              ss |-> tm.ss, us |-> tm.us, aware |-> tzpos > 0,
              off |-> IF tzpos > 0 /\ tstr[tzpos] = 45 THEN 0 - tzsecs ELSE tzsecs]
        ELSE BadParse

\* datetime.isoformat(): YYYY-MM-DDTHH:MM:SS, and .ffffff when microsecond # 0.
IsoFormat(dt) ==
    Pad(dt.y, 4) \o <<45>> \o Pad(dt.m, 2) \o <<45>> \o Pad(dt.d, 2) \o <<84>>
    \o Pad(dt.hh, 2) \o <<58>> \o Pad(dt.mi, 2) \o <<58>> \o Pad(dt.ss, 2)
    \o (IF dt.us = 0 THEN <<>> ELSE <<46>> \o Pad(dt.us, 6))

\* date.toordinal(): days since 0001-01-01, that day being 1.
RECURSIVE DaysBeforeMonth(_, _)
DaysBeforeMonth(y, m) ==
    IF m <= 1 THEN 0 ELSE DaysBeforeMonth(y, m - 1) + DaysInMonth(y, m - 1)

ToOrdinal(y, m, d) ==
    LET p == y - 1
    IN  p * 365 + p \div 4 - p \div 100 + p \div 400 + DaysBeforeMonth(y, m) + d

\* The point in time a datetime denotes, as <<seconds since 2000-01-01T00:00:00
\* UTC, microseconds>>; a naive datetime is read as UTC, as utcnow() is.
Instant(dt) ==
    << (ToOrdinal(dt.y, dt.m, dt.d) - ToOrdinal(2000, 1, 1)) * 86400
       + dt.hh * 3600 + dt.mi * 60 + dt.ss - (IF "off" \in DOMAIN dt THEN dt.off ELSE 0),
       dt.us >>

\* Instant a is later than instant b.
Later(a, b) == a[1] > b[1] \/ (a[1] = b[1] /\ a[2] > b[2])

\* str.replace('Z', '+00:00'): every 'Z' of s replaced.
RECURSIVE ReplaceZ(_)
ReplaceZ(s) ==
    IF s = <<>> THEN <<>>
    ELSE (IF Head(s) = 90 THEN <<43, 48, 48, 58, 48, 48>> ELSE <<Head(s)>>)
         \o ReplaceZ(Tail(s))

\* validate_date(date_str): fromisoformat of the string, 'Z' replaced, does not raise.
validate_date(date_str) == FromIsoFormat(ReplaceZ(date_str)).ok

----------------------------------------------------------------------------
(* bson.ObjectId                                                           *)

\* The value of a hexadecimal digit, -1 for any other character.
HexVal(c) ==
    IF IsDigit(c) THEN c - 48
    ELSE IF c >= 97 /\ c <= 102 THEN c - 87     \* 'a'..'f'
    ELSE IF c >= 65 /\ c <= 70 THEN c - 55      \* 'A'..'F'
    ELSE -1

\* A check of the length alone.
ObjectIdIsValid_LengthOnly(s) == Len(s) = 24

\* ObjectId(s) does not raise InvalidId: s is 24 hexadecimal digits.
ObjectIdIsValid(s) == Len(s) = 24 /\ \A i \in 1..Len(s) : HexVal(s[i]) >= 0

\* ObjectId(s): the 12 bytes s writes, kept as 24 half-bytes.
ObjectId(s) == [i \in 1..24 |-> HexVal(s[i])]

\* str(ObjectId): 24 lower-case hexadecimal digits.
StrOfObjectId(oid) ==
    [i \in 1..24 |-> IF oid[i] < 10 THEN 48 + oid[i] ELSE 87 + oid[i]]

\* The n-th ObjectId the store generates (insert_one assigns _id); they
\* differ in the last half-byte, 'a' for the first.
GenObjectId(n) == [i \in 1..24 |-> IF i = 24 THEN 9 + n ELSE 0]

----------------------------------------------------------------------------
(* base64.b64decode(...).decode('utf-8') and the teachers collection       *)

\* The six bits a base64 alphabet character stands for, -1 for any other.
B64Val(c) ==
    IF IsUpper(c) THEN c - 65
    ELSE IF IsLower(c) THEN c - 71
    ELSE IF IsDigit(c) THEN c + 4
    ELSE IF c = 43 THEN 62                      \* '+'
    ELSE IF c = 47 THEN 63                      \* '/'
    ELSE -1

B64IsData(c) == B64Val(c) >= 0
B64IsPad(c) == c = 61                           \* '='

\* The bytes of a sequence of base64 alphabet characters.
RECURSIVE B64Bytes(_)
B64Bytes(d) ==
    IF Len(d) < 2 THEN <<>>
    ELSE
    LET a == B64Val(d[1])
        b == B64Val(d[2])
        c == IF Len(d) >= 3 THEN B64Val(d[3]) ELSE 0
        e == IF Len(d) >= 4 THEN B64Val(d[4]) ELSE 0
        b1 == a * 4 + b \div 16
        b2 == (b % 16) * 16 + c \div 4
        b3 == (c % 4) * 64 + e
    IN  IF Len(d) = 2 THEN <<b1>>
        ELSE IF Len(d) = 3 THEN <<b1, b2>>
        ELSE <<b1, b2, b3>> \o B64Bytes(SubSeq(d, 5, Len(d)))

\* base64.b64decode(s) (validate=False): characters outside the alphabet are
\* discarded; binascii.Error ("Incorrect padding") when the data characters
\* left do not fill their last group with the '=' present.
B64Decode(s) ==
    LET data == SelectSeq(s, B64IsData)
        pads == Len(SelectSeq(s, B64IsPad))
        r    == Len(data) % 4
    IN  IF r = 0 \/ (r = 2 /\ pads >= 2) \/ (r = 3 /\ pads >= 1)
        THEN [ok |-> TRUE, bytes |-> B64Bytes(data)]
        ELSE [ok |-> FALSE, bytes |-> <<>>]

\* bytes.decode('utf-8') for one- and two-byte sequences; any other byte is
\* UnicodeDecodeError (the credentials used hold none that starts a longer one).
RECURSIVE Utf8Decode(_)
Utf8Decode(b) ==
    IF b = <<>> THEN [ok |-> TRUE, str |-> <<>>]
    ELSE IF b[1] < 128
    THEN LET rest == Utf8Decode(Tail(b))
         IN  [ok |-> rest.ok, str |-> <<b[1]>> \o rest.str]
    ELSE IF b[1] >= 194 /\ b[1] <= 223 /\ Len(b) >= 2 /\ b[2] >= 128 /\ b[2] <= 191
    THEN LET rest == Utf8Decode(SubSeq(b, 3, Len(b)))
         IN  [ok |-> rest.ok, str |-> <<(b[1] - 192) * 64 + (b[2] - 128)>> \o rest.str]
    ELSE [ok |-> FALSE, str |-> <<>>]

\* The stored hash of a password (database.hash_password), kept as the
\* password under a tag so that a hash never equals a password.
hash_password(password) == <<36>> \o password

\* database.verify_password(hashed_password, plain_password): true only for the
\* hash of that password; an empty or malformed hash verifies nothing.
verify_password(hashed_password, plain_password) ==
    hashed_password # <<>> /\ hashed_password = hash_password(plain_password)

\* teachers_collection: teacher "t" with password "p", and teacher "n" whose
\* document has no password field.
teachers_collection ==
    ( <<116>> :> [username |-> <<116>>, password |-> hash_password(<<112>>)] )
    @@ ( <<110>> :> [username |-> <<110>>] )

\* teacher.get("password", "")
TeacherPassword(teacher) ==
    IF "password" \in DOMAIN teacher THEN teacher.password ELSE <<>>

\* A handler's outcome when the dependency or the handler raises HTTPException.
HttpError(status_code, detail) ==
    [status |-> status_code, detail |-> detail, body |-> <<>>]

\* get_current_user without the verify_password check.
get_current_user_NoVerify(credentials, lookup_fails) ==
    LET raw     == B64Decode(credentials)
        decoded == Utf8Decode(raw.bytes)
        colon   == FindFrom(decoded.str, 58, 1)
        username == Slice(decoded.str, 1, colon - 1)
    IN  IF ~raw.ok \/ ~decoded.ok
        THEN [ok |-> FALSE, err |-> HttpError(401, "Invalid token encoding")]
        ELSE IF colon = 0
        THEN [ok |-> FALSE, err |-> HttpError(401, "Token format invalid")]
        ELSE IF lookup_fails
        THEN [ok |-> FALSE, err |-> HttpError(500, "Database error during authentication")]
        ELSE IF username \notin DOMAIN teachers_collection
        THEN [ok |-> FALSE, err |-> HttpError(401, "Invalid credentials")]
        ELSE [ok |-> TRUE, user |-> teachers_collection[username]]

\* get_current_user(credentials): the teacher document, or the HTTPException.
\* lookup_fails: teachers_collection.find_one raises.
get_current_user(credentials, lookup_fails) ==
    LET raw     == B64Decode(credentials)
        decoded == Utf8Decode(raw.bytes)
        colon   == FindFrom(decoded.str, 58, 1)
        username == Slice(decoded.str, 1, colon - 1)
        password == Slice(decoded.str, colon + 1, Len(decoded.str))
    IN  IF ~raw.ok \/ ~decoded.ok
        THEN [ok |-> FALSE, err |-> HttpError(401, "Invalid token encoding")]
        ELSE IF colon = 0
        THEN [ok |-> FALSE, err |-> HttpError(401, "Token format invalid")]
        ELSE IF lookup_fails
        THEN [ok |-> FALSE, err |-> HttpError(500, "Database error during authentication")]
        ELSE IF username \notin DOMAIN teachers_collection
                \/ ~verify_password(TeacherPassword(teachers_collection[username]), password)
        THEN [ok |-> FALSE, err |-> HttpError(401, "Invalid credentials")]
        ELSE [ok |-> TRUE, user |-> teachers_collection[username]]

----------------------------------------------------------------------------
(* announcements_collection: the store's calls, each atomic                *)

NoDocuments == [o \in {} |-> 0]

\* The document as find / find_one hand it out: its fields and its _id.
WithId(doc, id) ==
    [_id |-> id, title |-> doc.title, message |-> doc.message,
     start_date |-> doc.start_date, expiration_date |-> doc.expiration_date,
     created_by |-> doc.created_by, created_at |-> doc.created_at]

\* find(): every document, in insertion order, the first n generated ids looked at.
RECURSIVE Find(_, _)
Find(store, n) ==
    IF n = 0 THEN <<>>
    ELSE Find(store, n - 1)
         \o (IF GenObjectId(n) \in DOMAIN store
             THEN <<WithId(store[GenObjectId(n)], GenObjectId(n))>> ELSE <<>>)

\* find_one({"_id": oid}) returns a document (not None).
FindOne(store, oid) == oid \in DOMAIN store

\* insert_one(doc): the store generates the next ObjectId.
InsertOne(store, n, doc) ==
    [store |-> (GenObjectId(n + 1) :> doc) @@ store,
     inserted_id |-> GenObjectId(n + 1)]

\* The document replaced by the payload: the fields left out become None.
ApplySet_Replace(doc, update_doc) ==
    [f \in DOMAIN doc |-> IF f \in DOMAIN update_doc THEN update_doc[f]
                          ELSE IF f \in {"title", "message", "start_date", "expiration_date"}
                          THEN None ELSE doc[f]]

\* The document after {"$set": update_doc}.
ApplySet(doc, update_doc) ==
    [f \in DOMAIN doc |-> IF f \in DOMAIN update_doc THEN update_doc[f] ELSE doc[f]]

\* update_one({"_id": oid}, {"$set": update_doc}): modified_count counts the
\* documents whose content changed, so it is 0 when no document matches and
\* when every field set already holds the value.
UpdateOne(store, oid, update_doc) ==
    IF oid \notin DOMAIN store
    THEN [store |-> store, modified_count |-> 0]
    ELSE LET new == ApplySet(store[oid], update_doc)
         IN  [store |-> [store EXCEPT ![oid] = new],
              modified_count |-> IF new = store[oid] THEN 0 ELSE 1]

\* delete_one({"_id": oid})
DeleteOne(store, oid) ==
    IF oid \notin DOMAIN store
    THEN [store |-> store, deleted_count |-> 0]
    ELSE [store |-> [o \in DOMAIN store \ {oid} |-> store[o]], deleted_count |-> 1]

----------------------------------------------------------------------------
(* The handlers                                                            *)

\* announcement["_id"] = str(announcement["_id"])
Serialize(doc) == [doc EXCEPT !._id = StrOfObjectId(doc._id)]

RECURSIVE SerializeAll(_)
SerializeAll(docs) ==
    IF docs = <<>> THEN <<>> ELSE <<Serialize(Head(docs))>> \o SerializeAll(Tail(docs))

\* The place of x in a list kept newest first: before the first older element.
RECURSIVE InsertNewestFirst(_, _)
InsertNewestFirst(acc, x) ==
    IF acc = <<>> THEN <<x>>
    ELSE IF StrGt(x.created_at, Head(acc).created_at) THEN <<x>> \o acc
    ELSE <<Head(acc)>> \o InsertNewestFirst(Tail(acc), x)

\* announcements.sort(key=lambda x: x.get("created_at", ""), reverse=True):
\* stable, by the created_at strings.
RECURSIVE SortNewestFirst(_)
SortNewestFirst(docs) ==
    IF docs = <<>> THEN <<>>
    ELSE InsertNewestFirst(SortNewestFirst(SubSeq(docs, 1, Len(docs) - 1)),
                           docs[Len(docs)])

\* The query {"expiration_date": {"$gt": now}}: a comparison of the strings.
MatchesActiveQuery(doc, now) == StrGt(doc.expiration_date, now)

\* get_announcements(), utcnow() returning now.
get_announcements(store, n, now) ==
    LET iso == IsoFormat(now)
        Active(doc) == MatchesActiveQuery(doc, iso)
    IN  [status |-> 200, detail |-> "",
         body |-> SortNewestFirst(SerializeAll(SelectSeq(Find(store, n), Active)))]

\* get_all_announcements(current_user)
get_all_announcements(store, n) ==
    [status |-> 200, detail |-> "",
     body |-> SortNewestFirst(SerializeAll(Find(store, n)))]

\* Python's truth value of an Optional[str]: None and "" are false.
Truthy(str) == str # None /\ str # <<>>

\* create_announcement: the start_date check passes (line 110).
CreateStartDateOk(start_date) == ~(Truthy(start_date) /\ ~validate_date(start_date))

\* An announcement_doc that leaves start_date out.
AnnouncementDoc_NoStartDate(announcement, current_user, now) ==
    [title |-> announcement.title, message |-> announcement.message,
     start_date |-> None,
     expiration_date |-> announcement.expiration_date,
     created_by |-> current_user.username, created_at |-> IsoFormat(now)]

\* create_announcement: announcement_doc (lines 117-124).
AnnouncementDoc(announcement, current_user, now) ==
    [title |-> announcement.title, message |-> announcement.message,
     start_date |-> announcement.start_date,
     expiration_date |-> announcement.expiration_date,
     created_by |-> current_user.username, created_at |-> IsoFormat(now)]

\* create_announcement(announcement, current_user), utcnow() returning now.
create_announcement(store, n, announcement, current_user, now) ==
    IF ~CreateStartDateOk(announcement.start_date)
    THEN [store |-> store, resp |-> HttpError(400, "Invalid start_date format")]
    ELSE IF ~validate_date(announcement.expiration_date)
    THEN [store |-> store, resp |-> HttpError(400, "Invalid expiration_date format")]
    ELSE LET doc == AnnouncementDoc(announcement, current_user, now)
             ins == InsertOne(store, n, doc)
         IN  [store |-> ins.store,
              resp |-> [status |-> 200, detail |-> "",
                        body |-> <<Serialize(WithId(doc, ins.inserted_id))>>]]

\* The fields of an AnnouncementUpdate.
UpdateFields == {"title", "message", "start_date", "expiration_date"}

\* update_announcement: update_doc (lines 168-177), the fields that are not None.
BuildUpdateDoc(announcement) ==
    [f \in {g \in UpdateFields : announcement[g] # None} |-> announcement[f]]

\* The emptiness check left out.
NoFieldsToUpdate_Never(update_doc) == FALSE

\* update_announcement: "if not update_doc" (line 179).
NoFieldsToUpdate(update_doc) == DOMAIN update_doc = {}

\* update_announcement: a date of the payload fails validation (lines 162-166).
UpdateDateError(announcement) ==
    IF announcement.start_date # None /\ ~validate_date(announcement.start_date)
    THEN "Invalid start_date format"
    ELSE IF announcement.expiration_date # None
            /\ ~validate_date(announcement.expiration_date)
    THEN "Invalid expiration_date format"
    ELSE ""

\* update_announcement(announcement_id, announcement, current_user)
update_announcement(store, announcement_id, announcement) ==
    IF ~ObjectIdIsValid(announcement_id)
    THEN [store |-> store, resp |-> HttpError(400, "Invalid announcement ID")]
    ELSE
    LET obj_id     == ObjectId(announcement_id)
        update_doc == BuildUpdateDoc(announcement)
        result     == UpdateOne(store, obj_id, update_doc)
    IN  IF ~FindOne(store, obj_id)
        THEN [store |-> store, resp |-> HttpError(404, "Announcement not found")]
        ELSE IF UpdateDateError(announcement) # ""
        THEN [store |-> store, resp |-> HttpError(400, UpdateDateError(announcement))]
        ELSE IF NoFieldsToUpdate(update_doc)
        THEN [store |-> store, resp |-> HttpError(400, "No fields to update")]
        ELSE IF result.modified_count = 0
        THEN [store |-> result.store,
              resp |-> HttpError(500, "Failed to update announcement")]
        ELSE [store |-> result.store,
              resp |-> [status |-> 200, detail |-> "",
                        body |-> <<Serialize(WithId(result.store[obj_id], obj_id))>>]]

\* delete_announcement(announcement_id, current_user)
delete_announcement(store, announcement_id) ==
    IF ~ObjectIdIsValid(announcement_id)
    THEN [store |-> store, resp |-> HttpError(400, "Invalid announcement ID")]
    ELSE
    LET obj_id == ObjectId(announcement_id)
        result == DeleteOne(store, obj_id)
    IN  IF ~FindOne(store, obj_id)
        THEN [store |-> store, resp |-> HttpError(404, "Announcement not found")]
        ELSE IF result.deleted_count = 0
        THEN [store |-> result.store,
              resp |-> HttpError(500, "Failed to delete announcement")]
        ELSE [store |-> result.store,
              resp |-> [status |-> 200, detail |-> "Announcement deleted successfully",
                        body |-> <<>>]]

----------------------------------------------------------------------------
(* The requests served                                                     *)

\* Requests served in a run.
MaxRequests == 3
\* Documents inserted in a run.
MaxDocs == 2

\* Bearer credentials: base64 of "t:p" (teacher t, the right password), "t:q"
\* (wrong password), "u:p" (no such teacher), "n:p" (teacher without a hash),
\* "tpp" (no colon); "dDp" (a group cut short) and "/w==" (the byte 0xFF).
TokenGood       == <<100, 68, 112, 119>>
TokenWrongPass  == <<100, 68, 112, 120>>
TokenNoTeacher  == <<100, 84, 112, 119>>
TokenNoHash     == <<98, 106, 112, 119>>
TokenNoColon    == <<100, 72, 66, 119>>
TokenBadPadding == <<100, 68, 112>>
TokenBadUtf8    == <<47, 119, 61, 61>>
Tokens ==
    {TokenGood, TokenWrongPass, TokenNoTeacher, TokenNoHash, TokenNoColon,
     TokenBadPadding, TokenBadUtf8}

\* Date strings: "2025-06-01T10:00:00Z", "2025-06-01T12:00:00+05:00" (07:00 UTC),
\* "2025-13-01" (no such month) and "".
DateZ      == <<50, 48, 50, 53, 45, 48, 54, 45, 48, 49, 84, 49, 48, 58, 48, 48, 58, 48, 48, 90>>
DateOffset == <<50, 48, 50, 53, 45, 48, 54, 45, 48, 49, 84, 49, 50, 58, 48, 48, 58, 48, 48,
                43, 48, 53, 58, 48, 48>>
DateBad    == <<50, 48, 50, 53, 45, 49, 51, 45, 48, 49>>
DateEmpty  == <<>>

\* The values utcnow() takes: 2025-06-01T09:00:00 and 2025-06-01T11:00:00.500000.
Clocks ==
    { [y |-> 2025, m |-> 6, d |-> 1, hh |-> 9, mi |-> 0, ss |-> 0, us |-> 0],
      [y |-> 2025, m |-> 6, d |-> 1, hh |-> 11, mi |-> 0, ss |-> 0, us |-> 500000] }

FirstClock == CHOOSE t \in Clocks : \A u \in Clocks : ~Later(Instant(t), Instant(u))

\* Titles "A", "B" and messages "m", "n".
CreatePayloads ==
    [title : {<<65>>}, message : {<<109>>},
     start_date : {None, DateEmpty, DateBad},
     expiration_date : {DateZ, DateOffset, DateBad}]

\* Update payloads: every subset of the fields set to an acceptable value, and
\* each date set to one that is not.
UpdatePayloads ==
    [title : {None, <<66>>}, message : {None, <<110>>},
     start_date : {None, DateZ}, expiration_date : {None, DateOffset}]
    \cup {[title |-> None, message |-> None, start_date |-> DateBad,
           expiration_date |-> None],
          [title |-> <<66>>, message |-> None, start_date |-> None,
           expiration_date |-> DateBad]}

\* Handlers running at the same time.
NumHandlers == 2
Handlers == 1..NumHandlers

\* The payload of a request that has none.
NoPayload ==
    [title |-> None, message |-> None, start_date |-> None, expiration_date |-> None]

\* Path identifiers: the first generated id as str() writes it, the second in
\* upper case, 24 characters that are not all hexadecimal, and "zz".
ToUpper(s) == [i \in 1..Len(s) |-> IF IsLower(s[i]) THEN s[i] - 32 ELSE s[i]]

IdFirst     == StrOfObjectId(GenObjectId(1))
IdSecondUpper == ToUpper(StrOfObjectId(GenObjectId(2)))
IdNotHex    == [i \in 1..24 |-> IF i = 24 THEN 103 ELSE 48]
IdShort     == <<122, 122>>

\* The inputs of the requests served under Spec: every payload and identifier,
\* with the right credential and one wrong one.
CrudInputs ==
    [tokens |-> {TokenGood, TokenWrongPass},
     lookups |-> {FALSE},
     ids |-> {IdFirst, IdSecondUpper, IdNotHex},
     creates |-> CreatePayloads,
     updates |-> UpdatePayloads]

\* The inputs of the requests served under SpecAuth: every credential, with a
\* few payloads and identifiers.
AuthInputs ==
    [tokens |-> Tokens,
     lookups |-> BOOLEAN,
     ids |-> {IdFirst, IdShort},
     creates |-> {p \in CreatePayloads : p.start_date = None /\ p.expiration_date = DateZ},
     updates |-> {p \in UpdatePayloads :
                    /\ p.message = None /\ p.start_date = None
                    /\ p.expiration_date = None}]

Request(op, credentials, lookup_fails, auth, announcement_id, announcement) ==
    [op |-> op, credentials |-> credentials, lookup_fails |-> lookup_fails,
     user |-> IF auth.ok THEN auth.user.username ELSE None,
     announcement_id |-> IF auth.ok THEN announcement_id ELSE None,
     announcement |-> IF auth.ok THEN announcement ELSE NoPayload]

NoAuth == [ok |-> FALSE]

\* A handler's frame: where it is (pc), its arguments, its locals obj_id,
\* update_doc and the count of result (modified_count, deleted_count), and,
\* once it is done, its outcome.
Frame(pc, op, announcement_id, announcement, obj_id, update_doc, count, out) ==
    [pc |-> pc, op |-> op, announcement_id |-> announcement_id,
     announcement |-> announcement, obj_id |-> obj_id, update_doc |-> update_doc,
     count |-> count, status |-> out.status, detail |-> out.detail, body |-> out.body]

NoOutcome == [status |-> 0, detail |-> "", body |-> <<>>]

Idle == Frame("idle", "none", None, NoPayload, <<>>, <<>>, 0, NoOutcome)


Init ==
    /\ announcements = NoDocuments
    /\ next_oid = 0
    /\ utc = FirstClock
    /\ req = Request("none", None, FALSE, NoAuth, None, NoPayload)
    /\ resp = [status |-> 0, detail |-> "", body |-> <<>>]
    /\ served = 0
    /\ proc = [h \in Handlers |-> Idle]

\* GET /announcements
GetAnnouncements ==
    /\ served < MaxRequests
    /\ \E now \in Clocks :
        /\ ~Later(Instant(utc), Instant(now))
        /\ utc' = now
        /\ resp' = get_announcements(announcements, next_oid, now)
    /\ req' = Request("list-active", None, FALSE, NoAuth, None, NoPayload)
    /\ served' = served + 1
    /\ UNCHANGED <<announcements, next_oid, proc>>

\* The request is turned away by the dependency get_current_user: the handler
\* does not run.
Rejected(op, credentials, lookup_fails, auth) ==
    /\ ~auth.ok
    /\ resp' = auth.err
    /\ req' = Request(op, credentials, lookup_fails, auth, None, NoPayload)
    /\ UNCHANGED <<announcements, next_oid, utc>>

\* GET /announcements/all
GetAllAnnouncements(in) ==
    /\ served < MaxRequests
    /\ \E credentials \in in.tokens, lookup_fails \in in.lookups :
       \E auth \in {get_current_user(credentials, lookup_fails)} :
            \/ Rejected("list-all", credentials, lookup_fails, auth)
            \/ /\ auth.ok
               /\ resp' = get_all_announcements(announcements, next_oid)
               /\ req' = Request("list-all", credentials, lookup_fails, auth,
                                 None, NoPayload)
               /\ UNCHANGED <<announcements, next_oid, utc>>
    /\ served' = served + 1
    /\ UNCHANGED proc

\* POST /announcements
CreateAnnouncement(in) ==
    /\ served < MaxRequests
    /\ next_oid < MaxDocs
    /\ \E credentials \in in.tokens, lookup_fails \in in.lookups :
       \E auth \in {get_current_user(credentials, lookup_fails)} :
            \/ Rejected("create", credentials, lookup_fails, auth)
            \/ /\ auth.ok
               /\ \E announcement \in in.creates, now \in Clocks :
                  \E out \in {create_announcement(announcements, next_oid,
                                                  announcement, auth.user, now)} :
                    \* utcnow() is read only once both dates are accepted
                    /\ ~Later(Instant(utc), Instant(now))
                    /\ out.resp.status = 200 \/ now = utc
                    /\ announcements' = out.store
                    /\ next_oid' = IF out.resp.status = 200 THEN next_oid + 1
                                   ELSE next_oid
                    /\ utc' = now
                    /\ resp' = out.resp
                    /\ req' = Request("create", credentials, lookup_fails, auth,
                                      None, announcement)
    /\ served' = served + 1
    /\ UNCHANGED proc

\* PUT /announcements/{announcement_id}
UpdateAnnouncement(in) ==
    /\ served < MaxRequests
    /\ \E credentials \in in.tokens, lookup_fails \in in.lookups :
       \E auth \in {get_current_user(credentials, lookup_fails)} :
            \/ Rejected("update", credentials, lookup_fails, auth)
            \/ /\ auth.ok
               /\ \E announcement_id \in in.ids, announcement \in in.updates :
                  \E out \in {update_announcement(announcements, announcement_id,
                                                  announcement)} :
                    /\ announcements' = out.store
                    /\ resp' = out.resp
                    /\ req' = Request("update", credentials, lookup_fails, auth,
                                      announcement_id, announcement)
               /\ UNCHANGED <<next_oid, utc>>
    /\ served' = served + 1
    /\ UNCHANGED proc

\* DELETE /announcements/{announcement_id}
DeleteAnnouncement(in) ==
    /\ served < MaxRequests
    /\ \E credentials \in in.tokens, lookup_fails \in in.lookups :
       \E auth \in {get_current_user(credentials, lookup_fails)} :
            \/ Rejected("delete", credentials, lookup_fails, auth)
            \/ /\ auth.ok
               /\ \E announcement_id \in in.ids :
                  \E out \in {delete_announcement(announcements, announcement_id)} :
                    /\ announcements' = out.store
                    /\ resp' = out.resp
                    /\ req' = Request("delete", credentials, lookup_fails, auth,
                                      announcement_id, NoPayload)
               /\ UNCHANGED <<next_oid, utc>>
    /\ served' = served + 1
    /\ UNCHANGED proc

Serve(in) ==
    \/ GetAnnouncements
    \/ GetAllAnnouncements(in)
    \/ CreateAnnouncement(in)
    \/ UpdateAnnouncement(in)
    \/ DeleteAnnouncement(in)

Next == Serve(CrudInputs)

Spec == Init /\ [][Next]_vars

NextAuth == Serve(AuthInputs)

SpecAuth == Init /\ [][NextAuth]_vars

----------------------------------------------------------------------------
(* Handlers running concurrently: every store call is one atomic step      *)

\* The teacher every concurrent request is authenticated as.
ConcUser == get_current_user(TokenGood, FALSE).user

\* The stores the concurrent handlers start from: one announcement, created
\* by create_announcement.
ConcStores ==
    { create_announcement(NoDocuments, 0, p, ConcUser, FirstClock).store :
        p \in {q \in CreatePayloads : q.start_date # DateBad /\ q.expiration_date # DateBad} }

ConcIds == {IdFirst, IdSecondUpper, IdShort}

ConcUpdates == {p \in UpdatePayloads : p.message = None /\ p.start_date \in {None, DateBad}}

InitConc ==
    /\ announcements \in ConcStores
    /\ next_oid = 1
    /\ utc = FirstClock
    /\ req = Request("none", None, FALSE, NoAuth, None, NoPayload)
    /\ resp = [status |-> 0, detail |-> "", body |-> <<>>]
    /\ served = 0
    /\ proc = [h \in Handlers |-> Idle]

Done(f, out) == [f EXCEPT !.pc = "done", !.status = out.status,
                          !.detail = out.detail, !.body = out.body]

\* update_announcement, lines 142-154: the identifier is parsed.
UpdateStart(h) ==
    /\ proc[h].pc = "idle"
    /\ \E announcement_id \in ConcIds, announcement \in ConcUpdates :
        proc' = [proc EXCEPT ![h] =
            IF ~ObjectIdIsValid(announcement_id)
            THEN Done(Frame("done", "update", announcement_id, announcement, <<>>, <<>>,
                            0, NoOutcome),
                      HttpError(400, "Invalid announcement ID"))
            ELSE Frame("find_one", "update", announcement_id, announcement,
                       ObjectId(announcement_id), <<>>, 0, NoOutcome)]
    /\ UNCHANGED <<announcements, next_oid, utc, req, resp, served>>

\* update_announcement, lines 156-180: the existence check, then the payload.
UpdateFindOne(h) ==
    /\ proc[h].pc = "find_one" /\ proc[h].op = "update"
    /\ LET f == proc[h]
           update_doc == BuildUpdateDoc(f.announcement)
       IN  proc' = [proc EXCEPT ![h] =
            IF ~FindOne(announcements, f.obj_id)
            THEN Done(f, HttpError(404, "Announcement not found"))
            ELSE IF UpdateDateError(f.announcement) # ""
            THEN Done(f, HttpError(400, UpdateDateError(f.announcement)))
            ELSE IF NoFieldsToUpdate(update_doc)
            THEN Done(f, HttpError(400, "No fields to update"))
            ELSE [f EXCEPT !.pc = "update_one", !.update_doc = update_doc]]
    /\ UNCHANGED <<announcements, next_oid, utc, req, resp, served>>

\* update_announcement, lines 182-189: update_one and the check of its count.
UpdateUpdateOne(h) ==
    /\ proc[h].pc = "update_one"
    /\ \E result \in {UpdateOne(announcements, proc[h].obj_id, proc[h].update_doc)} :
        /\ announcements' = result.store
        /\ proc' = [proc EXCEPT ![h] =
            IF result.modified_count = 0
            THEN Done([@ EXCEPT !.count = 0],
                      HttpError(500, "Failed to update announcement"))
            ELSE [@ EXCEPT !.pc = "refetch", !.count = result.modified_count]]
    /\ UNCHANGED <<next_oid, utc, req, resp, served>>

\* update_announcement, lines 191-194: the record is read again; when find_one
\* returns None, updated["_id"] raises TypeError and the server answers 500.
UpdateRefetch(h) ==
    /\ proc[h].pc = "refetch"
    /\ proc' = [proc EXCEPT ![h] =
        IF FindOne(announcements, @.obj_id)
        THEN Done(@, [status |-> 200, detail |-> "",
                      body |-> <<Serialize(WithId(announcements[@.obj_id], @.obj_id))>>])
        ELSE Done(@, HttpError(500, "Internal Server Error"))]
    /\ UNCHANGED <<announcements, next_oid, utc, req, resp, served>>

\* delete_announcement, lines 204-208: the identifier is parsed.
DeleteStart(h) ==
    /\ proc[h].pc = "idle"
    /\ \E announcement_id \in ConcIds :
        proc' = [proc EXCEPT ![h] =
            IF ~ObjectIdIsValid(announcement_id)
            THEN Done(Frame("done", "delete", announcement_id, NoPayload, <<>>, <<>>,
                            0, NoOutcome),
                      HttpError(400, "Invalid announcement ID"))
            ELSE Frame("find_one", "delete", announcement_id, NoPayload,
                       ObjectId(announcement_id), <<>>, 0, NoOutcome)]
    /\ UNCHANGED <<announcements, next_oid, utc, req, resp, served>>

\* delete_announcement, lines 210-213: the existence check.
DeleteFindOne(h) ==
    /\ proc[h].pc = "find_one" /\ proc[h].op = "delete"
    /\ proc' = [proc EXCEPT ![h] =
        IF ~FindOne(announcements, @.obj_id)
        THEN Done(@, HttpError(404, "Announcement not found"))
        ELSE [@ EXCEPT !.pc = "delete_one"]]
    /\ UNCHANGED <<announcements, next_oid, utc, req, resp, served>>

\* delete_announcement, lines 215-221: delete_one and the check of its count.
DeleteDeleteOne(h) ==
    /\ proc[h].pc = "delete_one"
    /\ \E result \in {DeleteOne(announcements, proc[h].obj_id)} :
        /\ announcements' = result.store
        /\ proc' = [proc EXCEPT ![h] =
            IF result.deleted_count = 0
            THEN Done([@ EXCEPT !.count = 0],
                      HttpError(500, "Failed to delete announcement"))
            ELSE Done([@ EXCEPT !.count = result.deleted_count],
                      [status |-> 200, detail |-> "Announcement deleted successfully",
                       body |-> <<>>])]
    /\ UNCHANGED <<next_oid, utc, req, resp, served>>

NextConc ==
    \E h \in Handlers :
        \/ UpdateStart(h)
        \/ UpdateFindOne(h)
        \/ UpdateUpdateOne(h)
        \/ UpdateRefetch(h)
        \/ DeleteStart(h)
        \/ DeleteFindOne(h)
        \/ DeleteDeleteOne(h)

SpecConc == InitConc /\ [][NextConc]_vars

----------------------------------------------------------------------------
(* The properties                                                          *)

ToLower(s) == [i \in 1..Len(s) |-> IF IsUpper(s[i]) THEN s[i] + 32 ELSE s[i]]

\* An identifier that reads as a store key: 24 hexadecimal digits.
WellFormedKey(id) ==
    /\ Len(id) = 24
    /\ \A i \in 1..Len(id) :
        IsDigit(id[i]) \/ (ToLower(id)[i] >= 97 /\ ToLower(id)[i] <= 102)

\* The stored announcements an identifier addresses.
Target(id, store) == {o \in DOMAIN store : StrOfObjectId(o) = ToLower(id)}

\* The time a valid date string denotes.
TimeOf(date_str) == Instant(FromIsoFormat(ReplaceZ(date_str)))

\* The identifiers of the announcements a response lists.
ListedIds(body) == {body[i]._id : i \in 1..Len(body)}

AuthOps == {"list-all", "create", "update", "delete"}

\* The request just served ran its handler: the credential was accepted.
Authenticated(r) == r.user # None

\* C1: list-active returns exactly the stored announcements whose
\* expiration_date is later than the query time, whatever their start_date.
C1_ActiveExactlyUnexpired ==
    req.op = "list-active" =>
        ListedIds(resp.body) =
            {StrOfObjectId(o) : o \in {x \in DOMAIN announcements :
                Later(TimeOf(announcements[x].expiration_date), Instant(utc))}}

\* The credentials that decode to an identity:secret pair, so that the
\* identity is looked up.
PairTokens == {TokenGood, TokenWrongPass, TokenNoTeacher, TokenNoHash}

C3_UpdateChangesSuppliedFieldsOnly ==
    [][ (req'.op = "update" /\ resp'.status = 200) =>
          /\ DOMAIN announcements' = DOMAIN announcements
          /\ Cardinality(Target(req'.announcement_id, announcements)) = 1
          /\ \A o \in DOMAIN announcements :
                IF o \in Target(req'.announcement_id, announcements)
                THEN /\ \A f \in {"title", "message", "start_date", "expiration_date"} :
                          announcements'[o][f] =
                              IF req'.announcement[f] # None
                              THEN req'.announcement[f] ELSE announcements[o][f]
                     /\ announcements'[o].created_by = announcements[o].created_by
                     /\ announcements'[o].created_at = announcements[o].created_at
                ELSE announcements'[o] = announcements[o] ]_vars

\* An update of the title alone succeeded while a second announcement is stored.
C3_Witness ==
    /\ req.op = "update" /\ resp.status = 200
    /\ req.announcement.title # None /\ req.announcement.message = None
    /\ req.announcement.start_date = None /\ req.announcement.expiration_date = None
    /\ Cardinality(DOMAIN announcements) = 2

\* C4: an authenticated update of an existing announcement that sets fields to
\* the values they already hold does not fail: it returns the record, unchanged.
C4_NoOpUpdateSucceeds ==
    [][ ( /\ req'.op = "update" /\ Authenticated(req')
          /\ req'.announcement # NoPayload
          /\ \E o \in Target(req'.announcement_id, announcements) :
                \A f \in {"title", "message", "start_date", "expiration_date"} :
                    req'.announcement[f] # None =>
                        req'.announcement[f] = announcements[o][f] )
        => /\ resp'.status = 200
           /\ announcements' = announcements
           /\ \E o \in Target(req'.announcement_id, announcements) :
                resp'.body = <<Serialize(WithId(announcements[o], o))>> ]_vars

\* C5: an authenticated update with none of the four fields yields 400
\* "No fields to update" and leaves the store unchanged, whatever identifier
\* it is addressed to.
C5_EmptyUpdateIsInvalidInputEmpty ==
    [][ (req'.op = "update" /\ Authenticated(req') /\ req'.announcement = NoPayload) =>
          /\ resp' = HttpError(400, "No fields to update")
          /\ announcements' = announcements ]_vars

\* C5 as amended: such an update leaves the store unchanged and yields 400
\* "No fields to update" when its identifier addresses a stored announcement;
\* 400 "Invalid announcement ID" when the identifier is no store key, and 404
\* when it is the key of no stored announcement.
C5_EmptyUpdateAfterIdChecks ==
    [][ (req'.op = "update" /\ Authenticated(req') /\ req'.announcement = NoPayload) =>
          /\ announcements' = announcements
          /\ resp' = IF ~WellFormedKey(req'.announcement_id)
                     THEN HttpError(400, "Invalid announcement ID")
                     ELSE IF Target(req'.announcement_id, announcements) = {}
                     THEN HttpError(404, "Announcement not found")
                     ELSE HttpError(400, "No fields to update") ]_vars

\* An empty update of a stored announcement was answered "No fields to update".
C5_Witness ==
    /\ req.op = "update" /\ Authenticated(req) /\ req.announcement = NoPayload
    /\ Target(req.announcement_id, announcements) # {}
    /\ resp = HttpError(400, "No fields to update")

\* C6: an authenticated update or delete addressed by an identifier that is no
\* store key yields 400, never 404, and changes nothing in the store.
C6_InvalidIdIsInvalidInput ==
    [][ ( /\ req'.op \in {"update", "delete"} /\ Authenticated(req')
          /\ ~WellFormedKey(req'.announcement_id) )
        => resp'.status = 400 /\ announcements' = announcements ]_vars

\* A delete by 24 characters that are not all hexadecimal was answered 400
\* while the store holds an announcement.
C6_Witness ==
    /\ req.op = "delete" /\ Authenticated(req)
    /\ req.announcement_id = IdNotHex
    /\ resp.status = 400
    /\ announcements # NoDocuments

\* C7: no partial success: a create, update or delete that ends in an error
\* has changed nothing in the store; the store changes only in operations that
\* report success.
C7_NoPartialSuccess ==
    \A h \in Handlers :
        (proc[h].pc = "done" /\ proc[h].status # 200) => proc[h].count = 0

BadDates(p) ==
    {f \in {"start_date", "expiration_date"} : p[f] # None /\ ~validate_date(p[f])}

\* C9: every stored announcement has an expiration_date that passes the Date
\* Validator and a start_date that is null or passes it; a create, or an update
\* of a stored announcement, that supplies a non-null date string failing the
\* validator is rejected with 400.
C9_StoredDatesValid ==
    /\ \A o \in DOMAIN announcements :
        /\ validate_date(announcements[o].expiration_date)
        /\ announcements[o].start_date = None
           \/ validate_date(announcements[o].start_date)
    /\ ( /\ Authenticated(req) /\ BadDates(req.announcement) # {}
         /\ \/ req.op = "create"
            \/ req.op = "update" /\ Target(req.announcement_id, announcements) # {} )
       => resp.status = 400

\* The record an update's response must be: the stored fields with those of
\* the payload set.
IsUpdatedRecord(body, f) ==
    /\ Len(body) = 1
    /\ body[1]._id = ToLower(f.announcement_id)
    /\ \A g \in {"title", "message", "start_date", "expiration_date"} :
        f.announcement[g] # None => body[1][g] = f.announcement[g]

\* C10: an update or delete racing with a delete of the same record ends in
\* success (the update returning the full post-update record), in 404, or in
\* 500 "Failed to update announcement" / "Failed to delete announcement", and
\* in no other outcome.
C10_RaceOutcomes ==
    \A h \in Handlers :
        ( /\ proc[h].pc = "done"
          /\ WellFormedKey(proc[h].announcement_id)
          /\ proc[h].op = "update" =>
                BadDates(proc[h].announcement) = {} /\ proc[h].announcement # NoPayload )
        => \/ proc[h].status = 200 /\ proc[h].op = "delete"
           \/ proc[h].status = 200 /\ IsUpdatedRecord(proc[h].body, proc[h])
           \/ proc[h].status = 404
           \/ /\ proc[h].status = 500
              /\ proc[h].detail = (IF proc[h].op = "update"
                                   THEN "Failed to update announcement"
                                   ELSE "Failed to delete announcement")

====
